---- MODULE Spec2Model ----
(***************************************************************************)
(* The merge script backend/storage/edit.sh (first script, lines 1-37) and *)
(* the engine process it starts.                                           *)
(*                                                                         *)
(* A shell string is a sequence of chunks.  A chunk is either one blank    *)
(* " ", one double quote "\"", or a piece of text holding neither; the     *)
(* string is the concatenation of its chunks.  Word splitting and quote    *)
(* removal of `eval $cmd` are computed on the chunks.  File names are      *)
(* chunk sequences of plain text and single blanks (names holding quotes,  *)
(* $, backquotes, backslashes or runs of blanks are outside the model).    *)
(***************************************************************************)
EXTENDS Integers, Sequences, FiniteSets, TLC

\* ------------------------------------------------------------- bounds

\* Most clips of one invocation of the script.
MaxClips == 3

\* Most clips of one invocation when two invocations run side by side.
MaxJobClips == 2

\* The wall-clock budget the executor of the specification would enforce,
\* in clock ticks; the script configures none.
TimeoutBudget == 1

\* The clock of an engine run is followed one tick past the budget.
MaxTicks == TimeoutBudget + 1

\* The longest batch of files selected at once, and the longest batch
\* dropped where two runs of handleUpload may overlap.
MaxBatch == 2
MaxDropBatch == 2

\* How many times a list component fetches its lists and how many
\* deletions the user asks for.
MaxFetches == 2
MaxDeletes == 3

\* How many status requests ContainerStatus starts.
MaxStatusRequests == 3

\* How many notifications App shows at once, and the duration of a
\* notification (5000 ms) in steps of the timer clock.
MaxNotifications == 3
Duration == 2

\* ------------------------------------------------------- the inputs

SP == " "
DQ == "\""

ClipA == <<"a.mp4">>
ClipB == <<"my", SP, "clip.mp4">>
ClipC == <<"bad.mp4">>
OutA == <<"out.mp4">>
OutB == <<"out", SP, "dir/o.mp4">>

Clips == {ClipA, ClipB, ClipC}
Outs == {OutA, OutB}

\* The processes that run the script.
Procs == {1, 2}

RECURSIVE SeqsUpTo(_, _)
SeqsUpTo(S, n) ==
    IF n = 0 THEN {<<>>}
    ELSE LET shorter == SeqsUpTo(S, n - 1)
         IN  shorter \cup {Append(s, x) : s \in shorter, x \in S}

\* Argument lists "$@": no argument, or 0..n clips followed by an output.
ArgListsOf(C, n) ==
    {<<>>} \cup {ins \o <<o>> : ins \in SeqsUpTo(C, n), o \in Outs}

ArgLists == ArgListsOf(Clips, MaxClips)
JobArgLists == ArgListsOf({ClipA}, MaxJobClips)

\* Intrinsic video geometry of the media files (width, height); bad.mp4
\* is a corrupt file whose video has no dimensions.
ClipGeometry(name) ==
    IF name = ClipA THEN <<1280, 720>>
    ELSE IF name = ClipC THEN <<0, 0>> ELSE <<1920, 1080>>

\* Whether the media file has an audio track; "my clip.mp4" has none.
HasAudio(name) == name # ClipB

\* ---------------------------------------------- the script, lines 3-34

CanonW == 1920
CanonH == 1080

Usage == "Usage: $0 <input1> [input2...] <output>"

\* The argument check off by one downwards: [ "$#" -lt 1 ].
NoArgs(a) == Len(a) < 1

\* The argument check off by one upwards: [ "$#" -lt 3 ].
FewerThanThreeArgs(a) == Len(a) < 3

\* [ "$#" -lt 2 ]
TooFewArgs(a) == Len(a) < 2

\* The input array filled from the last input to the first.
InputsReversed(a) == [i \in 1 .. (Len(a) - 1) |-> a[Len(a) - i]]

\* inputs=("${@:1:$#-1}")
Inputs(a) == SubSeq(a, 1, Len(a) - 1)

\* output="${!#}"
Output(a) == a[Len(a)]

VPad(i) == "[" \o ToString(i) \o ":v]"
APad(i) == "[" \o ToString(i) \o ":a]"
VLabel(i) == "[v" \o ToString(i) \o "]"

ScaleText ==
    "scale=" \o ToString(CanonW) \o ":" \o ToString(CanonH)
             \o ":force_original_aspect_ratio=decrease"
\* The padding that leaves the picture in the top left corner:
\* pad=1920:1080:0:0.
PadTextTopLeft ==
    "pad=" \o ToString(CanonW) \o ":" \o ToString(CanonH) \o ":0:0"

PadText ==
    "pad=" \o ToString(CanonW) \o ":" \o ToString(CanonH)
           \o ":(ow-iw)/2:(oh-ih)/2"
SarText == "setsar=1"

\* "[$i:v]scale=...,pad=...,setsar=1[v$i]; "
Stage(i) ==
    <<VPad(i), ScaleText, ",", PadText, ",", SarText, VLabel(i), ";", SP>>

\* " -i \"${inputs[$i]}\""
InputOption(name) == <<SP, "-i", SP, DQ>> \o name \o <<DQ>>

\* Every clip's picture joined with the sound of the first clip:
\* "[v$i][0:a]".
ConcatPairFirstAudio(i) == <<VLabel(i), APad(0)>>

\* "[v$i][${i}:a]"
ConcatPair(i) == <<VLabel(i), APad(i)>>

\* The loop with the pair of each clip put in front of concat_inputs:
\* concat_inputs="[v$i][${i}:a]$concat_inputs".
RECURSIVE LoopPrepending(_, _, _)
LoopPrepending(ins, i, acc) ==
    IF i >= Len(ins) THEN acc
    ELSE LoopPrepending(ins, i + 1,
              [cmd |-> acc.cmd \o InputOption(ins[i + 1]),
               filter_complex |-> acc.filter_complex \o Stage(i),
               concat_inputs |-> ConcatPair(i) \o acc.concat_inputs])

\* for i in "${!inputs[@]}": the indices 0..N-1 in increasing order.
RECURSIVE Loop(_, _, _)
Loop(ins, i, acc) ==
    IF i >= Len(ins) THEN acc
    ELSE Loop(ins, i + 1,
              [cmd |-> acc.cmd \o InputOption(ins[i + 1]),
               filter_complex |-> acc.filter_complex \o Stage(i),
               concat_inputs |-> acc.concat_inputs \o ConcatPair(i)])

AfterLoop(ins) ==
    Loop(ins, 0, [cmd |-> <<"ffmpeg">>, filter_complex |-> <<>>,
                  concat_inputs |-> <<>>])

\* The branch taken for a single input too: [ "${#inputs[@]}" -gt 0 ].
MoreThanNone(ins) == Len(ins) > 0

\* [ "${#inputs[@]}" -gt 1 ]
MoreThanOne(ins) == Len(ins) > 1

ConcatText(n) == "concat=n=" \o ToString(n) \o ":v=1:a=1"

\* filter_complex+="${concat_inputs}concat=n=${#inputs[@]}:v=1:a=1[v][a]"
FilterComplex(ins) ==
    IF MoreThanOne(ins)
    THEN AfterLoop(ins).filter_complex \o AfterLoop(ins).concat_inputs
             \o <<ConcatText(Len(ins)), "[v]", "[a]">>
    ELSE AfterLoop(ins).filter_complex

\* The two mappings in the other order, audio before video, in either
\* branch.
MapOptionsAudioFirst(ins) ==
    IF MoreThanOne(ins)
    THEN <<SP, "-filter_complex", SP, DQ>> \o FilterComplex(ins)
             \o <<DQ, SP, "-map", SP, DQ, "[a]", DQ,
                  SP, "-map", SP, DQ, "[v]", DQ>>
    ELSE <<SP, "-map", SP, "0:a", SP, "-map", SP, "0:v">>

\* The -filter_complex/-map part of cmd, of either branch.
MapOptions(ins) ==
    IF MoreThanOne(ins)
    THEN <<SP, "-filter_complex", SP, DQ>> \o FilterComplex(ins)
             \o <<DQ, SP, "-map", SP, DQ, "[v]", DQ,
                  SP, "-map", SP, DQ, "[a]", DQ>>
    ELSE <<SP, "-map", SP, "0:v", SP, "-map", SP, "0:a">>

\* The encoder parameters with another preset and quality:
\* -crf 18 -preset medium.
EncoderOptionsMedium(out) ==
    <<SP, "-c:v", SP, "libx264", SP, "-crf", SP, "18",
      SP, "-preset", SP, "medium", SP, "-c:a", SP, "aac",
      SP, "-b:a", SP, "192k", SP, DQ>> \o out \o <<DQ>>

\* " -c:v libx264 -crf 23 -preset veryfast -c:a aac -b:a 192k \"$output\""
EncoderOptions(out) ==
    <<SP, "-c:v", SP, "libx264", SP, "-crf", SP, "23",
      SP, "-preset", SP, "veryfast", SP, "-c:a", SP, "aac",
      SP, "-b:a", SP, "192k", SP, DQ>> \o out \o <<DQ>>

\* The value of cmd at line 36.
BuildCmd(a) ==
    AfterLoop(Inputs(a)).cmd \o MapOptions(Inputs(a))
        \o EncoderOptions(Output(a))

\* ------------------------------------------------- eval $cmd, line 37

\* The positions 1..n of a string, to select from.
Positions(s) == [k \in 1 .. Len(s) |-> k]

\* The unquoted expansion $cmd is split at blanks and eval joins the words
\* with single blanks: a blank stays when it is the first of its run, text
\* precedes it and text follows it.
SplitJoin(s) ==
    LET Stays(k) ==
            \/ s[k] # SP
            \/ /\ k > 1
               /\ s[k - 1] # SP
               /\ \E m \in (k + 1) .. Len(s) : s[m] # SP
        kept == SelectSeq(Positions(s), Stays)
    IN  [j \in 1 .. Len(kept) |-> s[kept[j]]]

\* Whether position k of s lies inside double quotes.
InQuotes(s, k) == Cardinality({m \in 1 .. (k - 1) : s[m] = DQ}) % 2 = 1

\* The shell reads a string: blanks outside double quotes separate words,
\* double quotes group and are removed.  A quote left open is a syntax
\* error.
Parse(s) ==
    LET IsSeparator(k) == s[k] = SP /\ ~InQuotes(s, k)
        NotQuote(c) == c # DQ
        seps == SelectSeq(Positions(s), IsSeparator)
        From(w) == IF w = 1 THEN 1 ELSE seps[w - 1] + 1
        To(w) == IF w = Len(seps) + 1 THEN Len(s) ELSE seps[w] - 1
    IN  [ok |-> ~InQuotes(s, Len(s) + 1),
         words |-> IF s = <<>> THEN <<>>
                   ELSE [w \in 1 .. (Len(seps) + 1) |->
                            SelectSeq(SubSeq(s, From(w), To(w)), NotQuote)]]

\* eval $cmd
ShellWords(s) == Parse(SplitJoin(s))

\* -------------------- the merge scripts for exactly 3 and 9 inputs

FixedUsage3 == "Usage: $0 <input1> <input2> <input3> <output>"
FixedUsage9 ==
    "Usage: $0 <input1> <input2> <input3> <input4> <input5> <input6> "
        \o "<input7> <input8> <input9> <output>"

\* One line of the quoted graph: the stage of input i, then "; ", the
\* continued line and the blank that begins the next one.
FixedStageLine(i) ==
    <<"[" \o ToString(i) \o ":v]",
      "scale=1920:1080:force_original_aspect_ratio=decrease", ",",
      "pad=1920:1080:(ow-iw)/2:(oh-ih)/2", ",", "setsar=1",
      "[v" \o ToString(i) \o "]", ";", SP, SP>>

\* The graph of the script for 3 inputs.
FixedGraph3 ==
    FixedStageLine(0) \o FixedStageLine(1) \o FixedStageLine(2)
        \o <<"[v0]", "[0:a]", "[v1]", "[1:a]", "[v2]", "[2:a]",
             "concat=n=3:v=1:a=1", "[v]", "[a]">>

\* The graph of the script for 9 inputs.
FixedGraph9 ==
    FixedStageLine(0) \o FixedStageLine(1) \o FixedStageLine(2)
        \o FixedStageLine(3) \o FixedStageLine(4) \o FixedStageLine(5)
        \o FixedStageLine(6) \o FixedStageLine(7) \o FixedStageLine(8)
        \o <<"[v0]", "[0:a]", "[v1]", "[1:a]", "[v2]", "[2:a]",
             "[v3]", "[3:a]", "[v4]", "[4:a]", "[v5]", "[5:a]",
             "[v6]", "[6:a]", "[v7]", "[7:a]", "[v8]", "[8:a]",
             "concat=n=9:v=1:a=1", "[v]", "[a]">>

\* -map "[v]" -map "[a]" -c:v libx264 -crf 23 -preset veryfast
\* -c:a aac -b:a 192k "$OUTPUT", as words: the script runs ffmpeg itself,
\* every expansion quoted.
FixedTail(out) ==
    << <<"-map">>, <<"[v]">>, <<"-map">>, <<"[a]">>,
       <<"-c:v">>, <<"libx264">>, <<"-crf">>, <<"23">>,
       <<"-preset">>, <<"veryfast">>, <<"-c:a">>, <<"aac">>,
       <<"-b:a">>, <<"192k">>, out >>

\* The command line of the script for 3 inputs.
FixedArgv3(a) ==
    << <<"ffmpeg">>, <<"-i">>, a[1], <<"-i">>, a[2], <<"-i">>, a[3],
       <<"-filter_complex">>, FixedGraph3 >> \o FixedTail(a[4])

\* The command line of the script for 9 inputs.
FixedArgv9(a) ==
    << <<"ffmpeg">>, <<"-i">>, a[1], <<"-i">>, a[2], <<"-i">>, a[3],
       <<"-i">>, a[4], <<"-i">>, a[5], <<"-i">>, a[6],
       <<"-i">>, a[7], <<"-i">>, a[8], <<"-i">>, a[9],
       <<"-filter_complex">>, FixedGraph9 >> \o FixedTail(a[10])

\* Jobs of 3 clips, and jobs of 9 clips made of 3 in three orders.
FixedArgLists ==
    {t \o <<o>> : t \in [1 .. 3 -> Clips], o \in Outs}
        \cup {t \o <<t[2], t[3], t[1]>> \o <<t[3], t[1], t[2]>> \o <<o>> :
                  t \in [1 .. 3 -> Clips], o \in Outs}

\* ------------------------- the second merge script, lines 39-68

\* "$0": the path the script was started by.
ScriptName == <<"edit.sh">>

\* output_file="${!#}": the last argument, and "$0" when there is none.
OutputFile(a) == IF a = <<>> THEN ScriptName ELSE a[Len(a)]

\* "[$i:v:0] [$i:a:0] "
MergePair(i) ==
    <<"[" \o ToString(i) \o ":v:0]", SP, "[" \o ToString(i) \o ":a:0]", SP>>

\* for i in "${!inputs[@]}", lines 55-58; the names are not quoted.
RECURSIVE MergeLoop(_, _, _)
MergeLoop(ins, i, acc) ==
    IF i >= Len(ins) THEN acc
    ELSE MergeLoop(ins, i + 1,
             [input_files_string |->
                  acc.input_files_string \o <<SP, "-i", SP>> \o ins[i + 1],
              filter_complex |-> acc.filter_complex \o MergePair(i)])

\* filter_complex+="concat=n=${#inputs[@]}:v=1:a=1 [v] [a]", for every
\* number of inputs.
MergeFilterComplex(ins) ==
    MergeLoop(ins, 0, [input_files_string |-> <<>>,
                       filter_complex |-> <<>>]).filter_complex
        \o <<ConcatText(Len(ins)), SP, "[v]", SP, "[a]">>

\* The value of ffmpeg_command at line 65.
FfmpegCommand(a) ==
    <<"ffmpeg">>
        \o MergeLoop(Inputs(a), 0, [input_files_string |-> <<>>,
                                    filter_complex |-> <<>>]).input_files_string
        \o <<SP, "-filter_complex", SP, DQ>> \o MergeFilterComplex(Inputs(a))
        \o <<DQ, SP, "-map", SP, DQ, "[v]", DQ, SP, "-map", SP, DQ, "[a]", DQ,
             SP, "-vsync", SP, "2", SP>> \o OutputFile(a)

\* ------------------------------- the command line as the engine reads it

\* The words that follow each occurrence of the option opt, in order.
RECURSIVE OptionValues(_, _, _)
OptionValues(av, opt, i) ==
    IF i >= Len(av) THEN <<>>
    ELSE IF av[i] = <<opt>>
         THEN <<av[i + 1]>> \o OptionValues(av, opt, i + 2)
         ELSE OptionValues(av, opt, i + 1)

\* av[1] is the program name.
InputArgs(av) == OptionValues(av, "-i", 2)
MapArgs(av) == OptionValues(av, "-map", 2)
GraphArgs(av) == OptionValues(av, "-filter_complex", 2)
OutputArg(av) == av[Len(av)]

\* The graph of the invocation; empty when there is none.
Graph(av) == IF GraphArgs(av) = <<>> THEN <<>> ELSE GraphArgs(av)[1]

Indices == 0 .. (MaxClips + MaxJobClips + 5)

IsVPad(c) == \E i \in Indices : c = VPad(i)
IsConcat(c) == \E n \in Indices : c = ConcatText(n)

VPadPositions(g) == {k \in 1 .. Len(g) : IsVPad(g[k])}
ConcatPositions(g) == {k \in 1 .. Len(g) : IsConcat(g[k])}

\* The per-clip stages of a graph: one for each video input pad.
StageIndices(g) == {i \in Indices : \E k \in 1 .. Len(g) : g[k] = VPad(i)}
StageCount(g) == Cardinality(VPadPositions(g))

HasJoin(g) == ConcatPositions(g) # {}

\* The inputs of the join stage: the labels between the last stage
\* separator and the concat filter.
JoinInputs(g) ==
    LET c == CHOOSE k \in ConcatPositions(g) : TRUE
        seps == {k \in 1 .. c : g[k] = SP}
        from == IF seps = {} THEN 1
                ELSE 1 + CHOOSE k \in seps : \A m \in seps : m <= k
    IN  SubSeq(g, from, c - 1)

\* The geometry of the video stream mapped to the output: the stream of
\* the graph's [v] output when every clip the join reads was padded to the
\* canonical size, the raw stream of input 0 for -map 0:v.
VideoGeometry(av) ==
    IF MapArgs(av)[1] = <<"0:v">>
    THEN ClipGeometry(InputArgs(av)[1])
    ELSE <<CanonW, CanonH>>

\* ------------------------------- VideoUpload (multi-file), part_002

ALLOWED_TYPES ==
    {"video/mp4", "video/avi", "video/mov", "video/mkv", "video/webm"}
MAX_FILE_SIZE == 500 * 1024 * 1024

\* The files a user may pick: two good ones (one of exactly the largest
\* size), a text file, a video that is too large, and no file at all.
FileA == [name |-> "a.mp4", type |-> "video/mp4", size |-> 1024]
FileB == [name |-> "b.webm", type |-> "video/webm", size |-> MAX_FILE_SIZE]
FileTxt == [name |-> "notes.txt", type |-> "text/plain", size |-> 1024]
FileBig ==
    [name |-> "big.mp4", type |-> "video/mp4", size |-> MAX_FILE_SIZE + 1]
NullFile == [name |-> "null", type |-> "null", size |-> 0]

UploadFiles == {FileA, FileB, FileTxt, FileBig, NullFile}
FileNames == {f.name : f \in UploadFiles}

\* The runs of handleUpload.
Runs == {1, 2}

\* The non-empty batches of at most n files of F.
BatchesOf(F, n) == SeqsUpTo(F, n) \ {<<>>}
Batches == BatchesOf(UploadFiles, MaxBatch)
DropBatches == BatchesOf({FileA, FileTxt}, MaxDropBatch)

\* validateFile: the message of the error it throws, "" when it returns.
validateFile(file) ==
    IF file = NullFile THEN "No file selected."
    ELSE IF file.type \notin ALLOWED_TYPES
         THEN "Unsupported file type. Please upload MP4, AVI, MOV, MKV, WebM files."
    ELSE IF file.size > MAX_FILE_SIZE
         THEN "File size too large. Maximum size is 500MB."
    ELSE ""

\* The files of a batch that pass, in order.
RECURSIVE ValidOf(_)
ValidOf(fs_) ==
    IF fs_ = <<>> THEN <<>>
    ELSE (IF validateFile(Head(fs_)) = "" THEN <<Head(fs_)>> ELSE <<>>)
             \o ValidOf(Tail(fs_))

\* The lines `${file.name}: ${error.message}` of the files that fail.
RECURSIVE ErrorsOf(_)
ErrorsOf(fs_) ==
    IF fs_ = <<>> THEN <<>>
    ELSE (IF validateFile(Head(fs_)) = "" THEN <<>>
          ELSE <<Head(fs_).name \o ": " \o validateFile(Head(fs_))>>)
             \o ErrorsOf(Tail(fs_))

\* validateFiles that drops the files that fail and returns the rest.
validateFilesLenient(fs_) ==
    [threw |-> FALSE, message |-> <<>>, validFiles |-> ValidOf(fs_)]

\* validateFiles: the valid files, or the error thrown.  The message is
\* kept as its lines.  For a file that is null the catch block's
\* file.name throws a TypeError, which leaves forEach and validateFiles.
validateFiles(fs_) ==
    IF \E k \in 1 .. Len(fs_) : fs_[k] = NullFile
    THEN [threw |-> TRUE,
          message |-> <<"Cannot read properties of null (reading 'name')">>,
          validFiles |-> <<>>]
    ELSE IF Len(ErrorsOf(fs_)) > 0
    THEN [threw |-> TRUE,
          message |-> <<"Validation errors:">> \o ErrorsOf(fs_),
          validFiles |-> <<>>]
    ELSE [threw |-> FALSE, message |-> <<>>, validFiles |-> ValidOf(fs_)]

\* ----------------------------- MediaList and VideoList, part_001

\* The three list components of part_001.
Components == {"MediaList", "VideoList", "VideoListMedia"}

ListNames == {"media", "videos", "audio", "images", "results", "temp"}

\* File names, as base and extension.
MediaX == <<"x", "mp4">>
MediaY == <<"y", "MP4">>
MediaS == <<"s", "mp3">>
MediaP == <<"p", "png">>
MediaNames == {MediaX, MediaY, MediaS, MediaP}

\* filename.split(".").pop()?.toLowerCase()
Extension(filename) ==
    IF filename[Len(filename)] = "MP4" THEN "mp4"
    ELSE filename[Len(filename)]

isVideoFile(filename) ==
    Extension(filename) \in {"mp4", "avi", "mov", "mkv", "webm"}
isAudioFile(filename) ==
    Extension(filename) \in {"mp3", "wav", "aac", "flac", "ogg", "m4a", "wma"}
isImageFile(filename) ==
    Extension(filename) \in {"jpg", "jpeg", "png", "gif", "bmp", "tiff"}

\* prev.filter(file => file !== filename)
Without(list, filename) == SelectSeq(list, LAMBDA f : f # filename)

\* The lists each component keeps with useState and sets from a response.
FetchedLists(c) ==
    IF c = "MediaList" THEN {"media", "results", "temp"}
    ELSE IF c = "VideoList" THEN {"videos", "results"}
    ELSE {"videos", "audio", "results", "temp"}

\* The lists each component renders, with a delete button for every entry.
DisplayedLists(c) ==
    IF c = "MediaList" THEN {"videos", "audio", "images", "results", "temp"}
    ELSE FetchedLists(c)

\* The source each delete button passes to handleDelete.
SourceOf(c, l) ==
    IF l \in {"results", "temp"} /\ c # "VideoList" THEN l
    ELSE IF c = "MediaList" THEN "medias"
    ELSE "videos"

\* What the server answers to getMedia / getVideos: the lists by name.
\* x.mp4 is in three directories at once.
ServerLists ==
    {[media |-> <<MediaX, MediaY, MediaS, MediaP>>,
      videos |-> <<MediaX, MediaY>>, audio |-> <<MediaS>>,
      images |-> <<>>, results |-> <<MediaX>>, temp |-> <<MediaX, MediaS>>],
     [media |-> <<MediaX>>, videos |-> <<MediaX>>, audio |-> <<>>,
      images |-> <<>>, results |-> <<>>, temp |-> <<>>]}

\* The effect of MediaList on [media]: videos, audio and images are the
\* entries of media of each kind; the other components have no such
\* effect.
Derived(c, ls) ==
    IF c = "MediaList"
    THEN [ls EXCEPT
             !["videos"] = SelectSeq(ls["media"], isVideoFile),
             !["audio"] = SelectSeq(ls["media"], isAudioFile),
             !["images"] = SelectSeq(ls["media"], isImageFile)]
    ELSE ls

\* ------------------------------------ ApiService._handleResponse

NETWORK_ERROR == "Network error. Please check your connection."

\* The bodies of a response: text that is not JSON, or a JSON value: null,
\* a number, a string, or an object whose detail is absent ("undefined"),
\* empty or a message.
TextBody == [kind |-> "text", detail |-> "undefined"]
NullBody == [kind |-> "null", detail |-> "undefined"]
NumberBody == [kind |-> "number", detail |-> "undefined"]
StringBody == [kind |-> "string", detail |-> "undefined"]
ObjectBodies ==
    {[kind |-> "object", detail |-> d] :
         d \in {"undefined", "", "Video not found", "File too large"}}
Bodies == {TextBody, NullBody, NumberBody, StringBody} \cup ObjectBodies

Statuses ==
    {200, 201, 204, 301, 400, 401, 403, 404, 409, 413, 422, 500, 502, 503}
Responses == [status : Statuses, body : Bodies]

\* response.ok
Ok(response) == response.status >= 200 /\ response.status <= 299

\* The switch on response.status of the catch block.
StatusMessage(st) ==
    IF st = 400 THEN "Invalid request. Please check your input."
    ELSE IF st = 404 THEN "Resource not found."
    ELSE IF st = 503 THEN "Service temporarily unavailable."
    ELSE IF st = 500 THEN "Server error. Please try again later."
    ELSE NETWORK_ERROR

\* _handleResponse(response): the body returned, or the message of the
\* error thrown.  response.json() rejects for a body that is not JSON;
\* reading error.detail of null throws, inside the try block; a detail
\* that is undefined or empty is falsy.
HandleResponse(response) ==
    IF ~Ok(response)
    THEN IF response.body.kind = "text" \/ response.body.kind = "null"
         THEN [returned |-> FALSE, thrown |-> StatusMessage(response.status)]
         ELSE IF response.body.detail \in {"undefined", ""}
         THEN [returned |-> FALSE, thrown |-> NETWORK_ERROR]
         ELSE [returned |-> FALSE, thrown |-> response.body.detail]
    ELSE IF response.body.kind = "text"
         THEN [returned |-> FALSE, thrown |-> "SyntaxError"]
         ELSE [returned |-> TRUE, thrown |-> "none"]

\* The files an engine may be told to write: the output paths, the script
\* itself, and the last word of each when the path is not quoted.
Files ==
    Outs \cup {ScriptName}
         \cup {OutputArg(ShellWords(o).words) : o \in Outs \cup {ScriptName}}

\* ------------------------------------------------------------ the state

VARIABLES
    pc,          \* where each process is in the script
    args,        \* "$@" of each process
    inputs,      \* the script's array inputs
    output,      \* the script's variable output
    cmd,         \* the script's variable cmd, as a shell string
    filter_complex,  \* the script's variable filter_complex
    stdout,      \* what the script printed
    status,      \* the script's exit status, -1 while it runs
    argv,        \* the command line of the engine process
    engine,      \* the engine process: "none", "alive" or "dead"
    engineCode,  \* the engine's exit code, -1 before it exits
    spawned,     \* how many engine processes the script started
    elapsed,     \* clock ticks the engine has been running
    fs           \* the output files: "absent", "empty" or "data"

\* The state of the VideoUpload component (multi-file) and of the runs of
\* its handleUpload.
VARIABLES
    isUploading,     \* useState(false)
    uploadQueue,     \* useState([])
    uploadProgress,  \* useState({}): file name -> status, "none" if absent
    runPc,           \* each run of handleUpload: "idle", "awaiting", "done"
    files,           \* the argument of the run
    validFiles,      \* the run's const validFiles
    loopIndex,       \* the run's loop variable i
    results,         \* the run's const results
    errors,          \* the run's const errors
    requests,        \* the calls of apiService.uploadVideo, in order
    successCalls,    \* the calls of onUploadSuccess of each run
    errorCalls       \* the calls of onUploadError of each run

\* The variables of the shell scripts.
scripts == <<pc, args, inputs, output, cmd, filter_complex, stdout, status,
             argv, engine, engineCode, spawned, elapsed, fs>>

\* The variables of VideoUpload.
upload == <<isUploading, uploadQueue, uploadProgress, runPc, files,
            validFiles, loopIndex, results, errors, requests,
            successCalls, errorCalls>>

\* The state of the mounted list component (MediaList or VideoList) and
\* of its requests.
VARIABLES
    mounted,         \* which list component the page shows, "none" before
    lists,           \* the useState lists, by name
    deleting,        \* useState({}): "undefined", "true" or "false"
    listLoading,     \* useState(true)
    listError,       \* useState(null): "null" or the message
    fetching,        \* requests of fetchMedia / fetchVideos outstanding
    fetchesStarted,  \* how many were started
    pendingDeletes,  \* the delete requests outstanding
    deletesStarted,  \* how many calls of handleDelete were made
    deleteCalls      \* the calls of onDeleteSuccess and onDeleteError

mediaList == <<mounted, lists, deleting, listLoading, listError, fetching,
               fetchesStarted, pendingDeletes, deletesStarted, deleteCalls>>

\* The state of ContainerStatus and of its requests.
VARIABLES
    containerMounted,    \* "no", "mounted" or "unmounted"
    containerStatus,     \* useState(null) status: 0 for null, else the
                         \* number of the request whose response it is
    containerLoading,    \* useState(true) loading
    containerError,      \* useState(null) error: "null" or the message
    statusOutstanding,   \* the numbers of the requests not yet answered
    statusStarted,       \* how many requests were started
    intervalActive       \* the 60-second interval is set

container == <<containerMounted, containerStatus, containerLoading,
               containerError, statusOutstanding, statusStarted,
               intervalActive>>

\* The state of App and of the timers of its Notification components.
VARIABLES
    notifications,   \* useState([]): records with id and type
    lastId,          \* the last value Date.now() returned, -1 for none
    clockMoved,      \* the millisecond clock has advanced since then
    timers           \* the time left on the timer of each notification

app == <<notifications, lastId, clockMoved, timers>>

\* A call of ApiService._handleResponse.
VARIABLES
    apiResponse,     \* the response it was called with (status 0: no call)
    apiOutcome       \* what it returned or threw

api == <<apiResponse, apiOutcome>>

\* The variables of the components of the page.
frontend == <<upload, mediaList, container, app, api>>

\* What the handlers of each component leave alone.
otherThanUpload == <<scripts, mediaList, container, app, api>>
otherThanLists == <<scripts, upload, container, app, api>>
otherThanContainer == <<scripts, upload, mediaList, app, api>>
otherThanApp == <<scripts, upload, mediaList, container, api>>
otherThanApi == <<scripts, upload, mediaList, container, app>>

vars == <<scripts, frontend>>

Init ==
    /\ pc = [p \in Procs |-> "idle"]
    /\ args = [p \in Procs |-> <<>>]
    /\ inputs = [p \in Procs |-> <<>>]
    /\ output = [p \in Procs |-> <<>>]
    /\ cmd = [p \in Procs |-> <<>>]
    /\ filter_complex = [p \in Procs |-> <<>>]
    /\ stdout = [p \in Procs |-> ""]
    /\ status = [p \in Procs |-> -1]
    /\ argv = [p \in Procs |-> <<>>]
    /\ engine = [p \in Procs |-> "none"]
    /\ engineCode = [p \in Procs |-> -1]
    /\ spawned = [p \in Procs |-> 0]
    /\ elapsed = [p \in Procs |-> 0]
    /\ fs = [o \in Files |-> "absent"]
    /\ isUploading = FALSE
    /\ uploadQueue = <<>>
    /\ uploadProgress = [n \in FileNames |-> "none"]
    /\ runPc = [r \in Runs |-> "idle"]
    /\ files = [r \in Runs |-> <<>>]
    /\ validFiles = [r \in Runs |-> <<>>]
    /\ loopIndex = [r \in Runs |-> 0]
    /\ results = [r \in Runs |-> <<>>]
    /\ errors = [r \in Runs |-> <<>>]
    /\ requests = <<>>
    /\ successCalls = [r \in Runs |-> <<>>]
    /\ errorCalls = [r \in Runs |-> <<>>]
    /\ mounted = "none"
    /\ lists = [l \in ListNames |-> <<>>]
    /\ deleting = [f \in MediaNames |-> "undefined"]
    /\ listLoading = TRUE
    /\ listError = "null"
    /\ fetching = 0
    /\ fetchesStarted = 0
    /\ pendingDeletes = {}
    /\ deletesStarted = 0
    /\ deleteCalls = <<>>
    /\ containerMounted = "no"
    /\ containerStatus = 0
    /\ containerLoading = TRUE
    /\ containerError = "null"
    /\ statusOutstanding = {}
    /\ statusStarted = 0
    /\ intervalActive = FALSE
    /\ notifications = <<>>
    /\ lastId = -1
    /\ clockMoved = FALSE
    /\ timers = <<>>
    /\ apiResponse = [status |-> 0, body |-> TextBody]
    /\ apiOutcome = [returned |-> FALSE, thrown |-> "none"]

\* Exit codes of the engine: success and one failure.
ExitCodes == {0, 1}

\* The script run in a shell that keeps the array of the invocation
\* before it and appends to it: inputs+=("${@:1:$#-1}").
RequestKeepingInputs(p, a) ==
    /\ pc[p] = "idle"
    /\ args' = [args EXCEPT ![p] = a]
    /\ IF TooFewArgs(a)
       THEN /\ stdout' = [stdout EXCEPT ![p] = Usage]
            /\ status' = [status EXCEPT ![p] = 1]
            /\ pc' = [pc EXCEPT ![p] = "rejected"]
            /\ UNCHANGED <<inputs, output, cmd, filter_complex>>
       ELSE LET ins == inputs[3 - p] \o Inputs(a)
            IN  /\ inputs' = [inputs EXCEPT ![p] = ins]
                /\ output' = [output EXCEPT ![p] = Output(a)]
                /\ filter_complex' =
                       [filter_complex EXCEPT ![p] = FilterComplex(ins)]
                /\ cmd' = [cmd EXCEPT ![p] = BuildCmd(ins \o <<Output(a)>>)]
                /\ pc' = [pc EXCEPT ![p] = "pending"]
                /\ UNCHANGED <<stdout, status>>
    /\ UNCHANGED <<argv, engine, engineCode, spawned, elapsed, fs>>
    /\ UNCHANGED frontend

\* A process starts the script with arguments a and runs lines 3-34: the
\* usage exit, or the command built and ready for eval.
Request(p, a) ==
    /\ pc[p] = "idle"
    /\ args' = [args EXCEPT ![p] = a]
    /\ IF TooFewArgs(a)
       THEN /\ stdout' = [stdout EXCEPT ![p] = Usage]
            /\ status' = [status EXCEPT ![p] = 1]
            /\ pc' = [pc EXCEPT ![p] = "rejected"]
            /\ UNCHANGED <<inputs, output, cmd, filter_complex>>
       ELSE /\ inputs' = [inputs EXCEPT ![p] = Inputs(a)]
            /\ output' = [output EXCEPT ![p] = Output(a)]
            /\ filter_complex' =
                   [filter_complex EXCEPT ![p] = FilterComplex(Inputs(a))]
            /\ cmd' = [cmd EXCEPT ![p] = BuildCmd(a)]
            /\ pc' = [pc EXCEPT ![p] = "pending"]
            /\ UNCHANGED <<stdout, status>>
    /\ UNCHANGED <<argv, engine, engineCode, spawned, elapsed, fs>>
    /\ UNCHANGED frontend

\* eval $cmd: the shell parses the string and starts the engine; a string
\* it cannot parse ends the script with status 2 and starts nothing.
Eval(p) ==
    /\ pc[p] = "pending"
    /\ IF ShellWords(cmd[p]).ok
       THEN /\ argv' = [argv EXCEPT ![p] = ShellWords(cmd[p]).words]
            /\ engine' = [engine EXCEPT ![p] = "alive"]
            /\ spawned' = [spawned EXCEPT ![p] = @ + 1]
            /\ pc' = [pc EXCEPT ![p] = "running"]
            /\ UNCHANGED status
       ELSE /\ status' = [status EXCEPT ![p] = 2]
            /\ pc' = [pc EXCEPT ![p] = "exited"]
            /\ UNCHANGED <<argv, engine, spawned>>
    /\ UNCHANGED <<args, inputs, output, cmd, filter_complex, stdout,
                   engineCode, elapsed, fs>>
    /\ UNCHANGED frontend

\* Time passes while the engine runs; the script only waits.
Tick(p) ==
    /\ engine[p] = "alive"
    /\ elapsed[p] < MaxTicks
    /\ elapsed' = [elapsed EXCEPT ![p] = @ + 1]
    /\ UNCHANGED <<pc, args, inputs, output, cmd, filter_complex, stdout,
                   status, argv, engine, engineCode, spawned, fs>>
    /\ UNCHANGED frontend

\* What the engine may have made of its output file when it exits: left
\* as it was, created or truncated, or written.
FileOutcomes(p) == {fs[OutputArg(argv[p])], "empty", "data"}

\* The engine exits with a code of its own choosing.
EngineExit(p) ==
    /\ engine[p] = "alive"
    /\ \E code \in ExitCodes : \E file \in FileOutcomes(p) :
           /\ engineCode' = [engineCode EXCEPT ![p] = code]
           /\ fs' = [fs EXCEPT ![OutputArg(argv[p])] = file]
    /\ engine' = [engine EXCEPT ![p] = "dead"]
    /\ UNCHANGED <<pc, args, inputs, output, cmd, filter_complex, stdout,
                   status, argv, spawned, elapsed>>
    /\ UNCHANGED frontend

\* The script running the engine in the background (eval "$cmd" &) and
\* exiting without waiting for it.
ScriptExitWithoutWaiting(p) ==
    /\ pc[p] = "running"
    /\ status' = [status EXCEPT ![p] = IF engine[p] = "dead"
                                       THEN engineCode[p] ELSE 0]
    /\ pc' = [pc EXCEPT ![p] = "exited"]
    /\ UNCHANGED <<args, inputs, output, cmd, filter_complex, stdout, argv,
                   engine, engineCode, spawned, elapsed, fs>>
    /\ UNCHANGED frontend

\* eval returns the engine's exit code, and the script, at its last line,
\* exits with it.
ScriptExit(p) ==
    /\ pc[p] = "running"
    /\ engine[p] = "dead"
    /\ status' = [status EXCEPT ![p] = engineCode[p]]
    /\ pc' = [pc EXCEPT ![p] = "exited"]
    /\ UNCHANGED <<args, inputs, output, cmd, filter_complex, stdout, argv,
                   engine, engineCode, spawned, elapsed, fs>>
    /\ UNCHANGED frontend

\* One invocation of the script, over every argument list.
Next ==
    \/ \E a \in ArgLists : Request(1, a)
    \/ Eval(1)
    \/ Tick(1)
    \/ EngineExit(1)
    \/ ScriptExit(1)

Spec == Init /\ [][Next]_vars

\* Invocations of the script side by side.
NextJobs ==
    \E p \in Procs :
        \/ \E a \in JobArgLists : Request(p, a)
        \/ Eval(p)
        \/ Tick(p)
        \/ EngineExit(p)
        \/ ScriptExit(p)

SpecJobs == Init /\ [][NextJobs]_vars

\* The exit status of a script ended by the signal TERM: 128 + 15.
SigTermStatus == 128 + 15

\* The caller gives up a running job: it ends the script with the signal
\* TERM.  The script sets no trap and started the engine in the foreground
\* (line 37), so the shell dies at once and the engine, which the signal
\* was not sent to, runs on.
Cancel(p) ==
    /\ pc[p] = "running"
    /\ status' = [status EXCEPT ![p] = SigTermStatus]
    /\ pc' = [pc EXCEPT ![p] = "exited"]
    /\ UNCHANGED <<args, inputs, output, cmd, filter_complex, stdout, argv,
                   engine, engineCode, spawned, elapsed, fs>>
    /\ UNCHANGED frontend

\* One invocation of the script, which its caller may give up.
NextCancel ==
    \/ \E a \in ArgLists : Request(1, a)
    \/ Eval(1)
    \/ Tick(1)
    \/ EngineExit(1)
    \/ ScriptExit(1)
    \/ Cancel(1)

SpecCancel == Init /\ [][NextCancel]_vars

\* A process starts the second script with arguments a and runs lines
\* 45-65: there is no check of the arguments; output holds output_file and
\* cmd holds ffmpeg_command.
RequestMerge(p, a) ==
    /\ pc[p] = "idle"
    /\ args' = [args EXCEPT ![p] = a]
    /\ inputs' = [inputs EXCEPT ![p] = Inputs(a)]
    /\ output' = [output EXCEPT ![p] = OutputFile(a)]
    /\ filter_complex' =
           [filter_complex EXCEPT ![p] = MergeFilterComplex(Inputs(a))]
    /\ cmd' = [cmd EXCEPT ![p] = FfmpegCommand(a)]
    /\ pc' = [pc EXCEPT ![p] = "pending"]
    /\ UNCHANGED <<stdout, status, argv, engine, engineCode, spawned,
                   elapsed, fs>>
    /\ UNCHANGED frontend

\* One invocation of the second script, over every argument list; line
\* 68 is eval as in the first.
NextMerge ==
    \/ \E a \in ArgLists : RequestMerge(1, a)
    \/ Eval(1)
    \/ Tick(1)
    \/ EngineExit(1)
    \/ ScriptExit(1)

SpecMerge == Init /\ [][NextMerge]_vars

\* A process runs the script for 3 inputs up to the start of ffmpeg.
FixedMerge3(p, a) ==
    /\ pc[p] = "idle"
    /\ args' = [args EXCEPT ![p] = a]
    /\ IF Len(a) # 4
       THEN /\ stdout' = [stdout EXCEPT ![p] = FixedUsage3]
            /\ status' = [status EXCEPT ![p] = 1]
            /\ pc' = [pc EXCEPT ![p] = "rejected"]
            /\ UNCHANGED <<inputs, output, argv, engine, spawned>>
       ELSE /\ inputs' = [inputs EXCEPT ![p] = <<a[1], a[2], a[3]>>]
            /\ output' = [output EXCEPT ![p] = a[4]]
            /\ argv' = [argv EXCEPT ![p] = FixedArgv3(a)]
            /\ engine' = [engine EXCEPT ![p] = "alive"]
            /\ spawned' = [spawned EXCEPT ![p] = @ + 1]
            /\ pc' = [pc EXCEPT ![p] = "running"]
            /\ UNCHANGED <<stdout, status>>
    /\ UNCHANGED <<cmd, filter_complex, engineCode, elapsed, fs>>
    /\ UNCHANGED frontend

\* A process runs the script for 9 inputs up to the start of ffmpeg.
FixedMerge9(p, a) ==
    /\ pc[p] = "idle"
    /\ args' = [args EXCEPT ![p] = a]
    /\ IF Len(a) # 10
       THEN /\ stdout' = [stdout EXCEPT ![p] = FixedUsage9]
            /\ status' = [status EXCEPT ![p] = 1]
            /\ pc' = [pc EXCEPT ![p] = "rejected"]
            /\ UNCHANGED <<inputs, output, argv, engine, spawned>>
       ELSE /\ inputs' = [inputs EXCEPT ![p] = SubSeq(a, 1, 9)]
            /\ output' = [output EXCEPT ![p] = a[10]]
            /\ argv' = [argv EXCEPT ![p] = FixedArgv9(a)]
            /\ engine' = [engine EXCEPT ![p] = "alive"]
            /\ spawned' = [spawned EXCEPT ![p] = @ + 1]
            /\ pc' = [pc EXCEPT ![p] = "running"]
            /\ UNCHANGED <<stdout, status>>
    /\ UNCHANGED <<cmd, filter_complex, engineCode, elapsed, fs>>
    /\ UNCHANGED frontend

\* One job handed to the dynamic script (process 1) and to one of the
\* scripts of fixed arity (process 2).
NextFixed ==
    \/ \E a \in FixedArgLists :
           /\ pc[2] = "idle" \/ a = args[2]
           /\ Request(1, a)
    \/ Eval(1)
    \/ \E a \in FixedArgLists :
           /\ pc[1] = "idle" \/ a = args[1]
           /\ FixedMerge3(2, a)
    \/ \E a \in FixedArgLists :
           /\ pc[1] = "idle" \/ a = args[1]
           /\ FixedMerge9(2, a)
    \/ \E p \in Procs : EngineExit(p)
    \/ \E p \in Procs : ScriptExit(p)

SpecFixed == Init /\ [][NextFixed]_vars

\* ------------------------------------ VideoUpload: the handlers

\* The message of the error apiService.uploadVideo rejects with.
UploadErrorMessage == "Upload failed. Please try again."

\* handleUpload(files) of run r, from its call to its first await or to
\* its end: validation, then the state set for the batch and the request
\* for the first file; or the catch block.
handleUpload(r, fls) ==
    LET v == validateFiles(fls)
    IN  /\ files' = [files EXCEPT ![r] = fls]
        /\ IF v.threw \/ Len(v.validFiles) = 0
           THEN /\ isUploading' = FALSE
                /\ uploadQueue' = <<>>
                /\ uploadProgress' = [n \in FileNames |-> "none"]
                /\ errorCalls' =
                       [errorCalls EXCEPT ![r] =
                           Append(@, IF v.threw THEN v.message
                                     ELSE <<"No valid files to upload.">>)]
                /\ runPc' = [runPc EXCEPT ![r] = "done"]
                /\ UNCHANGED <<validFiles, loopIndex, requests>>
           ELSE /\ isUploading' = TRUE
                /\ uploadQueue' = v.validFiles
                /\ uploadProgress' =
                       [n \in FileNames |->
                           IF n = v.validFiles[1].name THEN "uploading"
                           ELSE "none"]
                /\ validFiles' = [validFiles EXCEPT ![r] = v.validFiles]
                /\ loopIndex' = [loopIndex EXCEPT ![r] = 0]
                /\ requests' =
                       Append(requests,
                              [run |-> r, name |-> v.validFiles[1].name])
                /\ runPc' = [runPc EXCEPT ![r] = "awaiting"]
                /\ UNCHANGED errorCalls
        /\ UNCHANGED <<results, errors, successCalls>>

\* The file input's onChange; the input is rendered, and enabled, only
\* while isUploading is false.
handleFileSelect(r, fls) ==
    /\ runPc[r] = "idle"
    /\ ~isUploading
    /\ handleUpload(r, fls)
    /\ UNCHANGED otherThanUpload

\* The upload area's onDrop; the area is rendered in every state.
handleDrop(r, fls) ==
    /\ runPc[r] = "idle"
    /\ handleUpload(r, fls)
    /\ UNCHANGED otherThanUpload

\* The loop leaving at the first upload that fails (a break in the inner
\* catch block).
uploadVideoSettledStopping(r, ok) ==
    /\ runPc[r] = "awaiting"
    /\ LET file == validFiles[r][loopIndex[r] + 1]
           results1 == IF ok THEN Append(results[r], file.name)
                       ELSE results[r]
           errors1 == IF ok THEN errors[r]
                      ELSE Append(errors[r],
                                  file.name \o ": " \o UploadErrorMessage)
           progress1 == [uploadProgress EXCEPT
                            ![file.name] = IF ok THEN "completed"
                                           ELSE "error"]
       IN  /\ results' = [results EXCEPT ![r] = results1]
           /\ errors' = [errors EXCEPT ![r] = errors1]
           /\ loopIndex' = [loopIndex EXCEPT ![r] = @ + 1]
           /\ IF ok /\ loopIndex[r] + 1 < Len(validFiles[r])
              THEN /\ uploadProgress' =
                          [progress1 EXCEPT
                              ![validFiles[r][loopIndex[r] + 2].name] =
                                  "uploading"]
                   /\ requests' =
                          Append(requests,
                                 [run |-> r,
                                  name |->
                                      validFiles[r][loopIndex[r] + 2].name])
                   /\ UNCHANGED <<isUploading, uploadQueue, successCalls,
                                  errorCalls, runPc>>
              ELSE /\ uploadProgress' = progress1
                   /\ isUploading' = FALSE
                   /\ uploadQueue' = <<>>
                   /\ successCalls' =
                          [successCalls EXCEPT ![r] =
                              IF Len(results1) > 0
                              THEN Append(@, [count |-> Len(results1),
                                              errors |-> errors1])
                              ELSE @]
                   /\ errorCalls' =
                          [errorCalls EXCEPT ![r] =
                              IF Len(errors1) > 0 THEN Append(@, errors1)
                              ELSE @]
                   /\ runPc' = [runPc EXCEPT ![r] = "done"]
                   /\ UNCHANGED requests
    /\ UNCHANGED <<files, validFiles>>
    /\ UNCHANGED otherThanUpload

\* await apiService.uploadVideo(file) of run r resolves (ok) or rejects:
\* the rest of the loop body, then the request for the next file, or the
\* end of handleUpload with its callbacks.
uploadVideoSettled(r, ok) ==
    /\ runPc[r] = "awaiting"
    /\ LET file == validFiles[r][loopIndex[r] + 1]
           results1 == IF ok THEN Append(results[r], file.name)
                       ELSE results[r]
           errors1 == IF ok THEN errors[r]
                      ELSE Append(errors[r],
                                  file.name \o ": " \o UploadErrorMessage)
           progress1 == [uploadProgress EXCEPT
                            ![file.name] = IF ok THEN "completed"
                                           ELSE "error"]
       IN  /\ results' = [results EXCEPT ![r] = results1]
           /\ errors' = [errors EXCEPT ![r] = errors1]
           /\ loopIndex' = [loopIndex EXCEPT ![r] = @ + 1]
           /\ IF loopIndex[r] + 1 < Len(validFiles[r])
              THEN /\ uploadProgress' =
                          [progress1 EXCEPT
                              ![validFiles[r][loopIndex[r] + 2].name] =
                                  "uploading"]
                   /\ requests' =
                          Append(requests,
                                 [run |-> r,
                                  name |->
                                      validFiles[r][loopIndex[r] + 2].name])
                   /\ UNCHANGED <<isUploading, uploadQueue, successCalls,
                                  errorCalls, runPc>>
              ELSE /\ uploadProgress' = progress1
                   /\ isUploading' = FALSE
                   /\ uploadQueue' = <<>>
                   /\ successCalls' =
                          [successCalls EXCEPT ![r] =
                              IF Len(results1) > 0
                              THEN Append(@, [count |-> Len(results1),
                                              errors |-> errors1])
                              ELSE @]
                   /\ errorCalls' =
                          [errorCalls EXCEPT ![r] =
                              IF Len(errors1) > 0 THEN Append(@, errors1)
                              ELSE @]
                   /\ runPc' = [runPc EXCEPT ![r] = "done"]
                   /\ UNCHANGED requests
    /\ UNCHANGED <<files, validFiles>>
    /\ UNCHANGED otherThanUpload

\* Batches picked with the file input, one after the other.
NextUpload ==
    \/ \E r \in Runs : \E fls \in Batches :
           /\ r = 1 \/ runPc[1] # "idle"
           /\ handleFileSelect(r, fls)
    \/ \E r \in Runs : \E ok \in BOOLEAN : uploadVideoSettled(r, ok)

SpecUpload == Init /\ [][NextUpload]_vars

\* Batches picked with the file input or dropped onto the upload area.
NextDrop ==
    \/ \E r \in Runs : \E fls \in DropBatches :
           /\ r = 1 \/ runPc[1] # "idle"
           /\ handleFileSelect(r, fls)
    \/ \E r \in Runs : \E fls \in DropBatches :
           /\ r = 1 \/ runPc[1] # "idle"
           /\ handleDrop(r, fls)
    \/ \E r \in Runs : \E ok \in BOOLEAN : uploadVideoSettled(r, ok)

SpecDrop == Init /\ [][NextDrop]_vars

\* --------------------------- MediaList and VideoList: the handlers

\* The page mounts one of the list components; its effect on
\* [refreshTrigger] calls fetchMedia / fetchVideos, which runs to its await.
mount(c) ==
    /\ mounted = "none"
    /\ mounted' = c
    /\ listLoading' = TRUE
    /\ listError' = "null"
    /\ fetching' = fetching + 1
    /\ fetchesStarted' = fetchesStarted + 1
    /\ UNCHANGED <<lists, deleting, pendingDeletes, deletesStarted,
                   deleteCalls>>
    /\ UNCHANGED otherThanLists

\* fetchMedia / fetchVideos called again, by a new refreshTrigger or by
\* the refresh or retry button, up to its await.
fetchMedia ==
    /\ mounted # "none"
    /\ fetchesStarted < MaxFetches
    /\ listLoading' = TRUE
    /\ listError' = "null"
    /\ fetching' = fetching + 1
    /\ fetchesStarted' = fetchesStarted + 1
    /\ UNCHANGED <<mounted, lists, deleting, pendingDeletes, deletesStarted,
                   deleteCalls>>
    /\ UNCHANGED otherThanLists

\* The request of fetchMedia / fetchVideos answers with data, or fails:
\* the lists are set (and MediaList's effect derives its three), or the
\* error; finally loading is false.
fetchMediaSettled(ok, data) ==
    /\ fetching > 0
    /\ fetching' = fetching - 1
    /\ IF ok
       THEN /\ lists' =
                   Derived(mounted,
                           [l \in ListNames |->
                               IF l \in FetchedLists(mounted) THEN data[l]
                               ELSE lists[l]])
            /\ UNCHANGED listError
       ELSE /\ listError' = "Failed to fetch videos."
            /\ UNCHANGED lists
    /\ listLoading' = FALSE
    /\ UNCHANGED <<mounted, deleting, fetchesStarted, pendingDeletes,
                   deletesStarted, deleteCalls>>
    /\ UNCHANGED otherThanLists

\* handleDelete(filename, source) from the delete button of an entry of
\* list l, up to its await; the buttons are rendered when the component is
\* neither loading nor showing an error, and the button of a file being
\* deleted is disabled.  ok is the answer the server is going to give.
handleDelete(filename, l, ok) ==
    /\ mounted # "none"
    /\ ~listLoading
    /\ listError = "null"
    /\ l \in DisplayedLists(mounted)
    /\ \E k \in 1 .. Len(lists[l]) : lists[l][k] = filename
    /\ deleting[filename] # "true"
    /\ deletesStarted < MaxDeletes
    /\ deletesStarted' = deletesStarted + 1
    /\ deleting' = [deleting EXCEPT ![filename] = "true"]
    /\ pendingDeletes' =
           pendingDeletes \cup {[filename |-> filename,
                                 source |-> SourceOf(mounted, l),
                                 ok |-> ok]}
    /\ UNCHANGED <<mounted, lists, listLoading, listError, fetching,
                   fetchesStarted, deleteCalls>>
    /\ UNCHANGED otherThanLists

\* handleDelete removing the file from its lists before the answer is
\* known: the lists are filtered whether the request succeeds or fails.
deleteSettledAlwaysRemoving(req) ==
    /\ req \in pendingDeletes
    /\ pendingDeletes' = pendingDeletes \ {req}
    /\ lists' =
           Derived(mounted,
                   [l \in ListNames |->
                       IF l \in FetchedLists(mounted)
                       THEN Without(lists[l], req.filename)
                       ELSE lists[l]])
    /\ deleteCalls' =
           Append(deleteCalls,
                  IF req.ok
                  THEN [callback |-> "onDeleteSuccess",
                        filename |-> req.filename]
                  ELSE [callback |-> "onDeleteError",
                        filename |-> req.filename])
    /\ deleting' = [deleting EXCEPT ![req.filename] = "false"]
    /\ UNCHANGED <<mounted, listLoading, listError, fetching,
                   fetchesStarted, deletesStarted>>
    /\ UNCHANGED otherThanLists

\* await apiService.deleteMedia / deleteVideo of handleDelete resolves or
\* rejects: the rest of the try block or the catch block, then finally.
deleteSettled(req) ==
    /\ req \in pendingDeletes
    /\ pendingDeletes' = pendingDeletes \ {req}
    /\ IF req.ok
       THEN /\ lists' =
                   Derived(mounted,
                           [l \in ListNames |->
                               IF l \in FetchedLists(mounted)
                               THEN Without(lists[l], req.filename)
                               ELSE lists[l]])
            /\ deleteCalls' =
                   Append(deleteCalls,
                          [callback |-> "onDeleteSuccess",
                           filename |-> req.filename])
       ELSE /\ UNCHANGED lists
            /\ deleteCalls' =
                   Append(deleteCalls,
                          [callback |-> "onDeleteError",
                           filename |-> req.filename])
    /\ deleting' = [deleting EXCEPT ![req.filename] = "false"]
    /\ UNCHANGED <<mounted, listLoading, listError, fetching,
                   fetchesStarted, deletesStarted>>
    /\ UNCHANGED otherThanLists

\* A list component on the page.
NextLists ==
    \/ \E c \in Components : mount(c)
    \/ fetchMedia
    \/ \E ok \in BOOLEAN : \E data \in ServerLists :
           fetchMediaSettled(ok, data)
    \/ \E f \in MediaNames : \E l \in ListNames : \E ok \in BOOLEAN :
           handleDelete(f, l, ok)
    \/ \E req \in pendingDeletes : deleteSettled(req)

SpecLists == Init /\ [][NextLists]_vars

\* ------------------------------------------------ ContainerStatus

\* fetchStatus up to its await: loading, no error, and a new request.
fetchStatus ==
    /\ statusStarted < MaxStatusRequests
    /\ containerLoading' = TRUE
    /\ containerError' = "null"
    /\ statusStarted' = statusStarted + 1
    /\ statusOutstanding' = statusOutstanding \cup {statusStarted + 1}
    /\ UNCHANGED containerStatus

\* The effect at mount: fetchStatus() and setInterval(fetchStatus, 60000).
mountStatus ==
    /\ containerMounted = "no"
    /\ containerMounted' = "mounted"
    /\ fetchStatus
    /\ intervalActive' = TRUE
    /\ UNCHANGED otherThanContainer

\* The interval fires, whatever the state of the component.
intervalFires ==
    /\ intervalActive
    /\ fetchStatus
    /\ UNCHANGED <<containerMounted, intervalActive>>
    /\ UNCHANGED otherThanContainer

\* The refresh button or the retry button, rendered when not loading.
refreshClick ==
    /\ containerMounted = "mounted"
    /\ ~containerLoading
    /\ fetchStatus
    /\ UNCHANGED <<containerMounted, intervalActive>>
    /\ UNCHANGED otherThanContainer

\* Request k is answered (ok) or fails: fetchStatus after its await.  The
\* setters of an unmounted component do nothing.
statusSettled(k, ok) ==
    /\ k \in statusOutstanding
    /\ statusOutstanding' = statusOutstanding \ {k}
    /\ IF containerMounted = "mounted"
       THEN /\ IF ok
               THEN containerStatus' = k /\ UNCHANGED containerError
               ELSE /\ containerError' = "Failed to get container status."
                    /\ UNCHANGED containerStatus
            /\ containerLoading' = FALSE
       ELSE UNCHANGED <<containerStatus, containerError, containerLoading>>
    /\ UNCHANGED <<containerMounted, statusStarted, intervalActive>>
    /\ UNCHANGED otherThanContainer

\* The component is unmounted: the effect's cleanup clears the interval.
unmountStatus ==
    /\ containerMounted = "mounted"
    /\ containerMounted' = "unmounted"
    /\ intervalActive' = FALSE
    /\ UNCHANGED <<containerStatus, containerLoading, containerError,
                   statusOutstanding, statusStarted>>
    /\ UNCHANGED otherThanContainer

NextContainer ==
    \/ mountStatus
    \/ intervalFires
    \/ refreshClick
    \/ \E k \in 1 .. MaxStatusRequests : \E ok \in BOOLEAN :
           statusSettled(k, ok)
    \/ unmountStatus

SpecContainer == Init /\ [][NextContainer]_vars

\* ------------------------------------------- App and Notification

\* Date.now(): the program only compares ids for equality, so a reading
\* is kept as a token: the reading before when the millisecond clock has
\* not advanced since, else a value different from every id in use.
DateNow ==
    IF lastId # -1 /\ ~clockMoved THEN lastId
    ELSE CHOOSE n \in 0 .. MaxNotifications :
             /\ n # lastId
             /\ \A k \in 1 .. Len(notifications) : notifications[k].id # n
             /\ \A m \in 0 .. (n - 1) :
                    \/ m = lastId
                    \/ \E k \in 1 .. Len(notifications) :
                           notifications[k].id = m

\* App renders list ns: every Notification gets a new onClose, so the
\* effect of each one clears its timer and sets a new one.
Rendered(ns) == [k \in 1 .. Len(ns) |-> Duration]

\* addNotification(message, type), as handleUploadSuccess,
\* handleUploadError, handleDeleteSuccess and handleDeleteError call it.
addNotification(type) ==
    /\ Len(notifications) < MaxNotifications
    /\ notifications' = Append(notifications,
                               [id |-> DateNow, type |-> type])
    /\ lastId' = DateNow
    /\ clockMoved' = FALSE
    /\ timers' = Rendered(notifications')
    /\ UNCHANGED otherThanApp

\* The millisecond clock advances.
clockAdvances ==
    /\ ~clockMoved
    /\ lastId # -1
    /\ clockMoved' = TRUE
    /\ UNCHANGED <<notifications, lastId, timers>>
    /\ UNCHANGED otherThanApp

\* removeNotification(id)
removeNotification(id) ==
    /\ notifications' = SelectSeq(notifications, LAMBDA n : n.id # id)
    /\ timers' = Rendered(notifications')
    /\ UNCHANGED <<lastId, clockMoved>>
    /\ UNCHANGED otherThanApp

\* The user clicks the close button of the k-th notification.
closeClick(k) ==
    /\ k \in 1 .. Len(notifications)
    /\ removeNotification(notifications[k].id)

\* The timer of the k-th notification fires and calls onClose.
timerFires(k) ==
    /\ k \in 1 .. Len(notifications)
    /\ timers[k] = 0
    /\ removeNotification(notifications[k].id)

\* Time passes on the timers; a timer that is due fires first.
timePasses ==
    /\ Len(notifications) > 0
    /\ \A k \in 1 .. Len(timers) : timers[k] > 0
    /\ timers' = [k \in 1 .. Len(timers) |-> timers[k] - 1]
    /\ UNCHANGED <<notifications, lastId, clockMoved>>
    /\ UNCHANGED otherThanApp

NextApp ==
    \/ \E type \in {"success", "error"} : addNotification(type)
    \/ clockAdvances
    \/ \E k \in 1 .. MaxNotifications : closeClick(k)
    \/ \E k \in 1 .. MaxNotifications : timerFires(k)
    \/ timePasses

SpecApp == Init /\ [][NextApp]_vars

\* Time passes, and a timer that is due fires.
SpecAppFair ==
    /\ SpecApp
    /\ WF_vars(timePasses)
    /\ \A k \in 1 .. MaxNotifications : WF_vars(timerFires(k))

\* ----------------------------------------------------- ApiService

\* A call of _handleResponse with a response.
handleResponse(response) ==
    /\ apiResponse' = response
    /\ apiOutcome' = HandleResponse(response)
    /\ UNCHANGED otherThanApi

NextApi == \E response \in Responses : handleResponse(response)

SpecApi == Init /\ [][NextApi]_vars

\* ======================================================== the claims

\* The number of clips of the job of process p: every argument but the last.
NumClips(p) == Len(args[p]) - 1

\* The job of process p has had its engine process started.
Started(p) == engine[p] # "none"

\* The states of a job: Pending from the request to the start of the
\* engine, Running while the script waits for the engine, then Succeeded
\* (exit status 0) or Failed (any other exit status).
Running(p) == pc[p] = "running"
Succeeded(p) == pc[p] = "exited" /\ status[p] = 0
Failed(p) == pc[p] = "exited" /\ status[p] # 0

\* C1: for N >= 2 clips the join stage reads the per-clip output labels
\* [v0], [v1], ..., [v(N-1)] in this order and no other, label [vi] being
\* the output of the stage that reads input i, and input i being the i-th
\* argument of the job.
C1_JoinInIndexOrder ==
    \A p \in Procs :
        Started(p) /\ NumClips(p) >= 2 =>
            LET g == Graph(argv[p])
            IN  /\ HasJoin(g)
                /\ Len(JoinInputs(g)) = 2 * NumClips(p)
                /\ Len(InputArgs(argv[p])) = NumClips(p)
                /\ \A i \in 0 .. (NumClips(p) - 1) :
                       /\ JoinInputs(g)[2 * i + 1] = VLabel(i)
                       /\ \E k \in 1 .. Len(g) :
                              g[k] = VPad(i) /\ g[k + 6] = VLabel(i)
                       /\ InputArgs(argv[p])[i + 1] = args[p][i + 1]

\* A job of three clips, not all the same, has its engine started.
C1_Witness ==
    \E p \in Procs :
        /\ Started(p)
        /\ NumClips(p) = 3
        /\ args[p][1] = ClipA
        /\ args[p][2] = ClipB

\* C2: a single clip is normalized like the clips of a longer job: for
\* every N >= 1 the invocation holds the scale, pad and setsar stage of
\* each clip, and the video stream mapped to the output has the canonical
\* geometry.
C2_EveryJobNormalized ==
    \A p \in Procs :
        Started(p) =>
            /\ \A i \in 0 .. (NumClips(p) - 1) :
                   \E k \in 1 .. Len(Graph(argv[p])) :
                       /\ Graph(argv[p])[k] = VPad(i)
                       /\ Graph(argv[p])[k + 1] = ScaleText
                       /\ Graph(argv[p])[k + 3] = PadText
                       /\ Graph(argv[p])[k + 5] = SarText
            /\ VideoGeometry(argv[p]) = <<CanonW, CanonH>>

\* C3: the invocation holds a concat stage exactly when N > 1; for N = 1
\* there is no graph and the clip's own video and audio are mapped to the
\* output.
C3_JoinOnlyForSeveral ==
    \A p \in Procs :
        Started(p) =>
            /\ HasJoin(Graph(argv[p])) <=> NumClips(p) > 1
            /\ NumClips(p) = 1 =>
                   /\ GraphArgs(argv[p]) = <<>>
                   /\ MapArgs(argv[p]) = << <<"0:v">>, <<"0:a">> >>

\* A job of one clip has its engine started.
C3_Witness == \E p \in Procs : Started(p) /\ NumClips(p) = 1

\* C4: for every N >= 1 the invocation holds exactly N inputs and exactly
\* N per-clip stages, one for each index 0..N-1, and for N >= 2 the join
\* reads each of the N clips exactly once, with concat n = N.
C4_NoClipDroppedOrDuplicated ==
    \A p \in Procs :
        Started(p) =>
            LET g == Graph(argv[p])
            IN  /\ Len(InputArgs(argv[p])) = NumClips(p)
                /\ StageCount(g) = NumClips(p)
                /\ StageIndices(g) = 0 .. (NumClips(p) - 1)
                /\ NumClips(p) >= 2 =>
                       /\ HasJoin(g)
                       /\ \E k \in 1 .. Len(g) :
                              g[k] = ConcatText(NumClips(p))
                       /\ \A i \in 0 .. (NumClips(p) - 1) :
                              Cardinality({k \in 1 .. Len(JoinInputs(g)) :
                                  JoinInputs(g)[k] = VLabel(i)}) = 1

\* C5: the engine is started exactly once for an accepted job, also after
\* it failed or ran long, and never for a request with fewer than two
\* arguments, which prints the usage text and exits with status 1.
C5_EngineStartedOnce ==
    \A p \in Procs :
        /\ spawned[p] <= 1
        /\ pc[p] \in {"running", "exited"} => spawned[p] = 1
        /\ pc[p] # "idle" /\ Len(args[p]) < 2 =>
               /\ spawned[p] = 0
               /\ pc[p] = "rejected"
               /\ stdout[p] = Usage
               /\ status[p] = 1
        /\ pc[p] = "rejected" => Len(args[p]) < 2

\* One request was rejected and another job failed after running past the
\* budget, with one engine start.
C5_Witness ==
    \E p, q \in Procs :
        /\ pc[p] = "rejected"
        /\ Failed(q)
        /\ elapsed[q] > TimeoutBudget
        /\ spawned[q] = 1

\* C6: at most one job per output path is Running at any time.
C6_OneRunningPerOutputPath ==
    \A p, q \in Procs :
        p # q /\ Running(p) /\ Running(q) => output[p] # output[q]

\* The jobs that hold output path P: those whose engine process is alive
\* and writes to P.
Holders(P) == {p \in Procs : engine[p] = "alive" /\ OutputArg(argv[p]) = P}

C8_SucceededHasOutput ==
    \A p \in Procs :
        Succeeded(p) => engineCode[p] = 0 /\ fs[output[p]] = "data"

C10_TimeoutEnforced ==
    \A p \in Procs :
        elapsed[p] > TimeoutBudget => ~Running(p) /\ ~Succeeded(p)

\* The job of process p has a clip whose video has a zero or negative
\* width or height.
HasUnreadableClip(p) ==
    \E i \in 1 .. NumClips(p) :
        ClipGeometry(args[p][i])[1] <= 0 \/ ClipGeometry(args[p][i])[2] <= 0

\* C11: for a job with a clip of zero or negative dimensions no engine
\* process is ever started: the job is never Running.
C11_UnreadableClipNeverSpawns ==
    \A p \in Procs :
        HasUnreadableClip(p) => spawned[p] = 0 /\ ~Running(p)

\* The audio stream of input i as an output mapping: "$i:a".
AudioMap(i) == <<ToString(i) \o ":a">>

\* C12: an invocation handed to the engine never reads the audio stream of
\* a clip that has no audio track, neither in the graph nor in a mapping.
C12_NoMissingAudioReferenced ==
    \A p \in Procs :
        Started(p) =>
            \A i \in 0 .. (NumClips(p) - 1) :
                ~HasAudio(args[p][i + 1]) =>
                    /\ \A k \in 1 .. Len(Graph(argv[p])) :
                           Graph(argv[p])[k] # APad(i)
                    /\ \A k \in 1 .. Len(MapArgs(argv[p])) :
                           MapArgs(argv[p])[k] # AudioMap(i)

\* C15: the command line of every engine process, for one clip and for
\* several, ends with exactly two output mappings, the video stream and
\* then the audio stream, followed by the encoder parameters libx264,
\* crf 23, preset veryfast, aac at 192k, and the output path.
C15_TwoMappingsThenEncoder ==
    \A p \in Procs :
        Started(p) =>
            LET av == argv[p]
                n == Len(av)
            IN  /\ Len(MapArgs(av)) = 2
                /\ n >= 15
                /\ MapArgs(av) = IF NumClips(p) = 1
                                 THEN << <<"0:v">>, <<"0:a">> >>
                                 ELSE << <<"[v]">>, <<"[a]">> >>
                /\ SubSeq(av, n - 14, n - 11) =
                       << <<"-map">>, MapArgs(av)[1],
                          <<"-map">>, MapArgs(av)[2] >>
                /\ SubSeq(av, n - 10, n - 1) =
                       << <<"-c:v">>, <<"libx264">>, <<"-crf">>, <<"23">>,
                          <<"-preset">>, <<"veryfast">>, <<"-c:a">>,
                          <<"aac">>, <<"-b:a">>, <<"192k">> >>
                /\ av[n] = output[p]

C15_Witness ==
    /\ Started(1)
    /\ NumClips(1) = 1
    /\ MapArgs(argv[1]) = << <<"0:v">>, <<"0:a">> >>
    /\ OutputArg(argv[1]) = OutB

\* C16: the stage the script builds for the clip at index i reads video
\* stream i, scales it to fit 1920x1080 keeping the aspect ratio, pads it
\* to 1920x1080 centred, sets the sample aspect ratio to 1 and writes
\* label vi; its text is the same for every clip at that index, whatever
\* the clip and whatever the other clips, and for N >= 2 it is the text
\* the engine reads.
C16_StageIsUniform ==
    \A p \in Procs :
        pc[p] \in {"pending", "running", "exited"} =>
            LET Expected(i) ==
                    <<"[" \o ToString(i) \o ":v]",
                      "scale=1920:1080:force_original_aspect_ratio=decrease",
                      ",",
                      "pad=1920:1080:(ow-iw)/2:(oh-ih)/2",
                      ",",
                      "setsar=1",
                      "[v" \o ToString(i) \o "]",
                      ";", SP>>
                g == Graph(argv[p])
            IN  \A i \in 0 .. (NumClips(p) - 1) :
                    /\ SubSeq(filter_complex[p], 9 * i + 1, 9 * i + 9)
                           = Expected(i)
                    /\ Started(p) /\ NumClips(p) >= 2 =>
                           SubSeq(g, 9 * i + 1, 9 * i + 9) = Expected(i)

C16_Witness ==
    /\ Started(1)
    /\ inputs[1] = <<ClipA, ClipB, ClipC>>
    /\ SubSeq(Graph(argv[1]), 19, 27) = Stage(2)

\* C17: for N >= 2 the graph has one join; each clip gives it two adjacent
\* inputs, the label vi of its normalized video and then the audio stream
\* i of the same clip, and the join has exactly one video output [v] and
\* one audio output [a], which end the graph.
C17_JoinPairsVideoWithOwnAudio ==
    \A p \in Procs :
        Started(p) /\ NumClips(p) >= 2 =>
            LET g == Graph(argv[p])
                ji == JoinInputs(g)
            IN  /\ Cardinality(ConcatPositions(g)) = 1
                /\ Len(ji) = 2 * NumClips(p)
                /\ \A i \in 0 .. (NumClips(p) - 1) :
                       /\ ji[2 * i + 1] = "[v" \o ToString(i) \o "]"
                       /\ ji[2 * i + 2] = "[" \o ToString(i) \o ":a]"
                /\ \A c \in ConcatPositions(g) :
                       /\ g[c] = ConcatText(NumClips(p))
                       /\ SubSeq(g, c + 1, Len(g)) = <<"[v]", "[a]">>

C17_Witness ==
    /\ Started(1)
    /\ NumClips(1) = 3
    /\ JoinInputs(Graph(argv[1])) =
           <<"[v0]", "[0:a]", "[v1]", "[1:a]", "[v2]", "[2:a]">>

\* C18: for a job of N >= 2 distinct clips and every reordering of its
\* clips, the command built for the reordered list starts an engine whose
\* input at position i is the i-th clip of the reordered list, read by
\* stage i; it is the job's own command line with the input files
\* reordered and nothing else changed, and it differs from the job's own
\* whenever the order differs.
C18_BuildCommutesWithPermutation ==
    \A p \in Procs :
        Started(p) /\ NumClips(p) >= 2
          /\ (\A i, j \in 1 .. NumClips(p) :
                  inputs[p][i] = inputs[p][j] => i = j) =>
            LET n == NumClips(p)
                av == argv[p]
                Orders == {f \in [1 .. n -> 1 .. n] :
                               \A i, j \in 1 .. n : f[i] = f[j] => i = j}
            IN  \A f \in Orders :
                    LET perm == [i \in 1 .. n |-> inputs[p][f[i]]]
                        w == ShellWords(BuildCmd(perm \o <<output[p]>>))
                    IN  /\ w.ok
                        /\ InputArgs(w.words) = perm
                        /\ \A i \in 0 .. (n - 1) :
                               Graph(w.words)[9 * i + 1] = VPad(i)
                        /\ w.words =
                               [k \in 1 .. Len(av) |->
                                   IF k > 1 /\ av[k - 1] = <<"-i">>
                                   THEN perm[(k - 1) \div 2]
                                   ELSE av[k]]
                        /\ perm # inputs[p] => w.words # av

C18_Witness ==
    /\ Started(1)
    /\ inputs[1] = <<ClipB, ClipC, ClipA>>
    /\ InputArgs(argv[1]) = <<ClipB, ClipC, ClipA>>

C13_CancelTerminatesEngine ==
    [][\A p \in Procs :
           pc[p] = "exited" /\ status[p] = SigTermStatus =>
               UNCHANGED <<engine, engineCode, elapsed, fs>>]_vars

\* C14: a job whose engine exited with a non-zero code reports exactly one
\* of the categories InputError, CodecError, ResourceError and Unknown.
C14_FailureHasCategory ==
    \A p \in Procs :
        Started(p) /\ Failed(p) /\ engineCode[p] # 0 =>
            stdout[p] \in {"InputError", "CodecError", "ResourceError",
                           "Unknown"}

\* C20: the second merge script does not route a job of one clip through
\* the join: the graph of its engine has no concat stage.
C20_MergeSingleClipWithoutJoin ==
    \A p \in Procs :
        Started(p) /\ Len(inputs[p]) = 1 => ~HasJoin(Graph(argv[p]))

\* C21: for a job of 3 clips and for a job of 9 clips the engine started
\* by the dynamic script and the engine started by the script of that
\* arity receive the same command line, word for word, but for the blanks
\* inside the graph: the same inputs in the same order, the same stages,
\* the same join, the same mappings, encoder parameters and output.
C21_DynamicEqualsFixed ==
    Started(1) /\ Started(2) /\ args[1] = args[2] =>
        LET NotBlank(c) == c # SP
            Words(av) ==
                [k \in 1 .. Len(av) |->
                    IF k > 1 /\ av[k - 1] = <<"-filter_complex">>
                    THEN SelectSeq(av[k], NotBlank)
                    ELSE av[k]]
        IN  /\ Words(argv[1]) = Words(argv[2])
            /\ InputArgs(argv[1]) = inputs[2]
            /\ Len(JoinInputs(Graph(argv[1]))) = 2 * NumClips(1)
            /\ JoinInputs(Graph(argv[1])) = JoinInputs(Graph(argv[2]))

C21_Witness ==
    /\ Started(1)
    /\ Started(2)
    /\ NumClips(1) = 9
    /\ args[2] = args[1]
    /\ inputs[2][1] = ClipB
    /\ inputs[2][2] = ClipA

\* C22: a batch with at least one file that fails validation sends no
\* upload request for any of its files, calls onUploadError exactly once
\* and onUploadSuccess never, and the step that handles it leaves
\* isUploading false.
C22_ValidationAllOrNothing ==
    /\ [](\A r \in Runs :
             runPc[r] # "idle"
               /\ (\E k \in 1 .. Len(files[r]) :
                       validateFile(files[r][k]) # "") =>
                 /\ runPc[r] = "done"
                 /\ \A k \in 1 .. Len(requests) : requests[k].run # r
                 /\ Len(errorCalls[r]) = 1
                 /\ successCalls[r] = <<>>)
    /\ [][\A r \in Runs :
             runPc[r] = "idle" /\ runPc'[r] # "idle"
               /\ (\E k \in 1 .. Len(files'[r]) :
                       validateFile(files'[r][k]) # "") =>
                 /\ ~isUploading
                 /\ ~isUploading'
                 /\ requests' = requests]_vars

C22_Witness ==
    /\ runPc[1] = "done"
    /\ files[1] = <<FileA, FileBig>>
    /\ Len(errorCalls[1]) = 1
    /\ requests = <<>>

\* C23: a run of handleUpload on a batch of valid files asks for the
\* uploads one at a time and in the order of the batch, goes on after an
\* upload that fails, and ends with every file of the batch 'completed' or
\* 'error', isUploading false and the queue empty; it calls
\* onUploadSuccess once iff an upload succeeded and onUploadError once iff
\* an upload failed.
C23_RunUploadsEveryFileInOrder ==
    \A r \in Runs :
        runPc[r] # "idle"
          /\ (\A k \in 1 .. Len(files[r]) : validateFile(files[r][k]) = "") =>
            LET mine == SelectSeq(requests, LAMBDA q : q.run = r)
                settled == Len(results[r]) + Len(errors[r])
                last == \A q \in Runs : q > r => runPc[q] = "idle"
            IN  /\ \A k \in 1 .. Len(mine) : mine[k].name = files[r][k].name
                /\ settled = loopIndex[r]
                /\ runPc[r] = "awaiting" =>
                       /\ Len(mine) = settled + 1
                       /\ isUploading
                       /\ successCalls[r] = <<>> /\ errorCalls[r] = <<>>
                /\ runPc[r] = "done" =>
                       /\ Len(mine) = Len(files[r])
                       /\ settled = Len(files[r])
                       /\ Len(successCalls[r]) =
                              (IF Len(results[r]) > 0 THEN 1 ELSE 0)
                       /\ Len(errorCalls[r]) =
                              (IF Len(errors[r]) > 0 THEN 1 ELSE 0)
                       /\ last =>
                              /\ ~isUploading
                              /\ uploadQueue = <<>>
                              /\ \A k \in 1 .. Len(files[r]) :
                                     uploadProgress[files[r][k].name]
                                         \in {"completed", "error"}

C23_Witness ==
    /\ runPc[1] = "done"
    /\ runPc[2] = "idle"
    /\ files[1] = <<FileA, FileB>>
    /\ results[1] = <<"b.webm">>
    /\ Len(errors[1]) = 1
    /\ Len(successCalls[1]) = 1
    /\ Len(errorCalls[1]) = 1

\* C24: isUploading is true whenever an upload request is in flight.
C24_UploadingWhileInFlight ==
    (\E r \in Runs : runPc[r] = "awaiting") => isUploading

\* C25: the step that ends handleDelete(filename) leaves every displayed
\* list as it was and calls onDeleteError when the request failed; when it
\* succeeded it removes filename from every displayed list, keeps all
\* other entries in their order and calls onDeleteSuccess; either way it
\* makes one call and leaves deleting[filename] false and the deleting
\* flags of the other files as they were.
C25_DeleteFrame ==
    [][\A req \in pendingDeletes :
           req \notin pendingDeletes' =>
               /\ deleting'[req.filename] = "false"
               /\ \A f \in MediaNames \ {req.filename} :
                      deleting'[f] = deleting[f]
               /\ Len(deleteCalls') = Len(deleteCalls) + 1
               /\ deleteCalls'[Len(deleteCalls')].filename = req.filename
               /\ deleteCalls'[Len(deleteCalls')].callback =
                      (IF req.ok THEN "onDeleteSuccess" ELSE "onDeleteError")
               /\ \A l \in DisplayedLists(mounted) :
                      lists'[l] = IF req.ok
                                  THEN Without(lists[l], req.filename)
                                  ELSE lists[l]]_vars

C25_Witness ==
    /\ mounted = "MediaList"
    /\ Len(deleteCalls) = 2
    /\ deleteCalls[1] = [callback |-> "onDeleteError", filename |-> MediaX]
    /\ deleteCalls[2] = [callback |-> "onDeleteSuccess", filename |-> MediaX]
    /\ lists["videos"] = <<MediaY>>
    /\ lists["audio"] = <<MediaS>>
    /\ lists["results"] = <<>>
    /\ lists["temp"] = <<MediaS>>
    /\ deleting[MediaX] = "false"

\* C26: while ContainerStatus is mounted, loading is true whenever a
\* status request is outstanding, and once every request is answered and
\* no error is shown the status displayed is the response of the request
\* started last.
C26_LoadingAndLatestStatus ==
    containerMounted = "mounted" =>
        /\ statusOutstanding # {} => containerLoading
        /\ statusOutstanding = {} /\ containerError = "null" =>
               containerStatus = statusStarted

\* C27: the notifications in App's list have pairwise distinct ids.
C27_NotificationIdsDistinct ==
    \A j, k \in 1 .. Len(notifications) :
        notifications[j].id = notifications[k].id => j = k

\* C28: every notification in App's list is eventually removed.
C28_NotificationEventuallyRemoved ==
    \A id \in 0 .. MaxNotifications :
        (\E k \in 1 .. Len(notifications) : notifications[k].id = id)
            ~> (\A k \in 1 .. Len(notifications) : notifications[k].id # id)

\* C29: _handleResponse returns the body only for an ok response; for
\* any other response it throws an error whose message is the detail of a
\* JSON body that has a non-empty one, the network-error message for a
\* JSON body without detail, the message of the status for a body that is
\* not JSON and status 400, 404, 500 or 503, and the network-error message
\* for any other status.
C29_HandleResponseMessages ==
    apiResponse.status # 0 =>
        /\ apiOutcome.returned => Ok(apiResponse)
        /\ ~Ok(apiResponse) =>
               /\ ~apiOutcome.returned
               /\ apiOutcome.thrown =
                      IF apiResponse.body.kind # "text"
                      THEN IF apiResponse.body.detail \in {"undefined", ""}
                           THEN "Network error. Please check your connection."
                           ELSE apiResponse.body.detail
                      ELSE IF apiResponse.status = 400
                           THEN "Invalid request. Please check your input."
                      ELSE IF apiResponse.status = 404
                           THEN "Resource not found."
                      ELSE IF apiResponse.status = 500
                           THEN "Server error. Please try again later."
                      ELSE IF apiResponse.status = 503
                           THEN "Service temporarily unavailable."
                      ELSE "Network error. Please check your connection."

====
